---- MODULE Spec2Model ----
(***************************************************************************)
(* Model of src/main.py: the contact endpoint (POST /api/contact), the     *)
(* SMTP notifier it calls (send_email_smtp) and the diagnostics endpoint   *)
(* (GET /test).                                                            *)
(*                                                                         *)
(* Strings are modelled by where they come from and how long they are:     *)
(* a string is a record [src, len]; slicing s[:n] keeps src and cuts len.  *)
(* Environment values are [set, chars] with chars a sequence of            *)
(* one-character strings, so that int() can be computed on EMAIL_PORT.     *)
(* The status literals are written without their emoji prefix.             *)
(*                                                                         *)
(* Assumptions: the interpreter accepts the backslash inside the f-string  *)
(* of line 88 (Python 3.12 or later; earlier versions reject the module);  *)
(* database.create_document, schemas.ContactLead and database.db are       *)
(* collaborators whose outcomes (return or raise) are chosen freely;       *)
(* hasattr(db, 'name') and db.name do not raise.                           *)
(***************************************************************************)
EXTENDS Integers, Sequences, FiniteSets, TLC

\* ---------------------------------------------------------------- limits
NameMax == 100
MessageMax == 5000
LeadErrorMax == 300
StatusErrorMax == 50
CollectionsShown == 10
ConfigErrorLen == 87
IntErrorLen == 42

\* how far past a limit the inputs go, and how many collections the
\* database may hold beyond the ones shown
Over == 1
ExtraCollections == 2

Min(a, b) == IF a < b THEN a ELSE b

\* ---------------------------------------------------------------- strings
Str(src, n) == [src |-> src, len |-> n]
NoneStr == [src |-> "None", len |-> 0]

\* Python truthiness of an Optional[str]
Truthy(s) == s.src # "None" /\ s.len > 0

\* s[:n]
Take(s, n) == [src |-> s.src, len |-> Min(s.len, n)]

\* ---------------------------------------------------------------- environment
Unset == [set |-> FALSE, chars |-> <<>>]
EnvStr(cs) == [set |-> TRUE, chars |-> cs]

\* truthiness of os.getenv(name): None and "" are both falsy
EnvTruthy(v) == v.set /\ v.chars # <<>>

\* os.getenv(name, default)
GetenvDefault(v, default) == IF v.set THEN v.chars ELSE default

Digits == {"0", "1", "2", "3", "4", "5", "6", "7", "8", "9"}

\* int(s) succeeds on a non-empty string of decimal digits
IntParses(cs) == cs # <<>> /\ \A i \in 1..Len(cs) : cs[i] \in Digits

TextValues == {Unset, EnvStr(<<>>), EnvStr(<<"v">>)}
PortValues == {Unset, EnvStr(<<>>), EnvStr(<<"5", "8", "7">>), EnvStr(<<"x">>)}

EmailEnvs ==
    [EMAIL_HOST : TextValues, EMAIL_PORT : PortValues,
     EMAIL_USER : TextValues, EMAIL_PASS : TextValues]

DbEnvs == [DATABASE_URL : TextValues, DATABASE_NAME : TextValues]

\* ---------------------------------------------------------------- variables
VARIABLES
    env,            \* EMAIL_* part of the process environment
    dbenv,          \* DATABASE_* part of the process environment
    pc,             \* position of the handler of the request in flight
    req,            \* the raw submission
    delivered,      \* contact(): delivered
    delivery_error, \* contact(): delivery_error
    sendExc,        \* what the call of send_email_smtp raised, "none" if it returned
    recordOut,      \* what the persistence block did
    written,        \* the leads this request put in the store
    trace,          \* the calls made for this request, in order
    response,       \* the answer of the request in flight
    log,            \* (delivered, persistence outcome, response) of answered submissions
    probe,          \* GET /test: what the database module does for this request
    snapshot        \* GET /test: the response dict

vars == <<env, dbenv, pc, req, delivered, delivery_error, sendExc, recordOut,
          written, trace, response, log, probe, snapshot>>

contactVars == <<req, delivered, delivery_error, sendExc, recordOut, written,
                 trace, response, log>>
diagVars == <<probe, snapshot>>

\* ---------------------------------------------------------------- inputs
NameLens == {0, 1, NameMax, NameMax + Over}
MessageLens == {0, 1, MessageMax, MessageMax + Over}
ErrLens == {0, 1, LeadErrorMax, LeadErrorMax + Over}

\* what the mail relay does to a session: every step of it can fail
NetOutcomes == {"ok", "connect", "starttls", "login", "sendmail"}

\* what the persistence block meets
RecordOutcomes == {"ok", "lead_raises", "store_raises"}

\* the classes raised in the model; all of them derive from Exception
ExceptionClasses ==
    {"ValueError", "RuntimeError", "OSError", "SMTPException",
     "SMTPAuthenticationError", "SMTPRecipientsRefused",
     "ValidationError", "Exception", "ImportError"}

NoReq == [name |-> NoneStr, emailOk |-> FALSE, message |-> NoneStr]
NoResponse == [status |-> 0, ok |-> FALSE, message |-> "", note |-> ""]
NoProbe == [import |-> "", dbNull |-> FALSE, hasName |-> FALSE,
            list |-> "", ncoll |-> 0, elen |-> 0]
NoSnapshot == [backend |-> "", database |-> [text |-> "", detail |-> NoneStr],
               database_url |-> "", database_name |-> "",
               connection_status |-> "", collections |-> <<>>]

\* the framework's answer to an exception that leaves the handler
Http500 == [status |-> 500, ok |-> FALSE, message |-> "Internal Server Error", note |-> ""]

\* the framework's answer to a body that fails validation
Http422 == [status |-> 422, ok |-> FALSE, message |-> "validation error", note |-> ""]

\* ---------------------------------------------------------------- validation
\* variant: the upper length limits are not enforced
ContactMessageNoMax(r) ==
    /\ r.name.len >= 1
    /\ r.emailOk
    /\ r.message.len >= 1

ContactMessage(r) ==
    /\ r.name.len >= 1 /\ r.name.len <= NameMax
    /\ r.emailOk
    /\ r.message.len >= 1 /\ r.message.len <= MessageMax

\* ---------------------------------------------------------------- notifier
NetException(net) ==
    CASE net = "connect" -> "OSError"
      [] net = "starttls" -> "SMTPException"
      [] net = "login" -> "SMTPAuthenticationError"
      [] net = "sendmail" -> "SMTPRecipientsRefused"
      [] OTHER -> "none"

\* the calls of the SMTP session that are reached
NetCalls(net) ==
    CASE net = "connect" -> <<"SMTP">>
      [] net = "starttls" -> <<"SMTP", "starttls">>
      [] net = "login" -> <<"SMTP", "starttls", "login">>
      [] OTHER -> <<"SMTP", "starttls", "login", "sendmail">>

ConfigMissing(host, user, password) ==
    ~EnvTruthy(host) \/ ~EnvTruthy(user) \/ ~EnvTruthy(password)

\* the call: what it raises, str() of that, and the SMTP calls it made
send_email_smtp(e, net, elen) ==
    LET portText == GetenvDefault(e.EMAIL_PORT, <<"5", "8", "7">>) IN
    IF ~IntParses(portText)
    THEN [exc |-> "ValueError",
          msg |-> Str("int", IntErrorLen + Len(portText)),
          calls |-> <<>>]
    ELSE IF ConfigMissing(e.EMAIL_HOST, e.EMAIL_USER, e.EMAIL_PASS)
    THEN [exc |-> "RuntimeError",
          msg |-> Str("config", ConfigErrorLen),
          calls |-> <<>>]
    ELSE [exc |-> NetException(net),
          msg |-> IF net = "ok" THEN NoneStr ELSE Str("smtp", elen),
          calls |-> NetCalls(net)]

\* ---------------------------------------------------------------- contact
\* variant: only the configuration error is caught
DeliveryExceptRuntimeOnly(class) == class = "RuntimeError"

\* except Exception as e (delivery)
DeliveryExcept(class) == class \in ExceptionClasses

\* variant: only a schema rejection is caught
PersistExceptValidationOnly(class) == class = "ValidationError"

\* except Exception (persistence)
PersistExcept(class) == class \in ExceptionClasses

RecordException(out) ==
    CASE out = "lead_raises" -> "ValidationError"
      [] out = "store_raises" -> "Exception"
      [] OTHER -> "none"

\* variant: a failed store write is tried again
RecordCallsRetry(out) ==
    CASE out = "lead_raises" -> <<"ContactLead">>
      [] out = "store_raises" -> <<"ContactLead", "create_document", "create_document">>
      [] OTHER -> <<"ContactLead", "create_document">>

\* the calls the persistence block makes: create_document is not reached
\* when building the ContactLead raises
RecordCalls(out) ==
    IF out = "lead_raises" THEN <<"ContactLead">>
    ELSE <<"ContactLead", "create_document">>

\* variant: the error is stored whole
LeadErrorUncut(de) == IF Truthy(de) THEN de ELSE NoneStr

\* error=(delivery_error[:300] if delivery_error else None)
LeadError(de) == IF Truthy(de) THEN Take(de, LeadErrorMax) ELSE NoneStr

ContactLead(m, d, de) ==
    [name |-> m.name, emailOk |-> m.emailOk, message |-> m.message,
     delivered |-> d, error |-> LeadError(de)]

ContactResponse(d) ==
    IF d
    THEN [status |-> 200, ok |-> TRUE, message |-> "Message sent successfully",
          note |-> ""]
    ELSE [status |-> 200, ok |-> TRUE,
          message |-> "Message received. We'll get back to you soon.",
          note |-> "Email delivery not configured on server; message saved."]

\* a request arrives; the framework parses the body next
Receive ==
    /\ pc \in {"idle", "done", "returned"}
    /\ \E n \in NameLens, m \in MessageLens, e \in BOOLEAN :
          req' = [name |-> Str("name", n), emailOk |-> e,
                  message |-> Str("message", m)]
    /\ pc' = "validate"
    /\ delivered' = FALSE
    /\ delivery_error' = NoneStr
    /\ sendExc' = "none"
    /\ recordOut' = ""
    /\ written' = <<>>
    /\ trace' = <<>>
    /\ response' = NoResponse
    /\ UNCHANGED <<env, dbenv, log, probe, snapshot>>

\* the body is checked against ContactMessage before contact() is entered
Validate ==
    /\ pc = "validate"
    /\ IF ContactMessage(req)
       THEN /\ pc' = "deliver"
            /\ response' = response
       ELSE /\ pc' = "done"
            /\ response' = Http422
    /\ UNCHANGED <<env, dbenv, req, delivered, delivery_error, sendExc,
                   recordOut, written, trace, log, probe, snapshot>>

\* delivered = False ... except Exception as e: delivery_error = str(e)
Deliver ==
    /\ pc = "deliver"
    /\ \E net \in NetOutcomes, elen \in ErrLens :
          LET r == send_email_smtp(env, net, elen) IN
          /\ trace' = trace \o <<"send_email_smtp">> \o r.calls
          /\ sendExc' = r.exc
          /\ IF r.exc = "none"
             THEN /\ delivered' = TRUE
                  /\ delivery_error' = NoneStr
                  /\ pc' = "record"
                  /\ response' = response
             ELSE IF DeliveryExcept(r.exc)
             THEN /\ delivered' = FALSE
                  /\ delivery_error' = r.msg
                  /\ pc' = "record"
                  /\ response' = response
             ELSE /\ delivered' = FALSE
                  /\ delivery_error' = NoneStr
                  /\ pc' = "done"
                  /\ response' = Http500
    /\ UNCHANGED <<env, dbenv, req, recordOut, written, log, probe, snapshot>>

\* try: lead = ContactLead(...); create_document(...) except Exception: pass
Record ==
    /\ pc = "record"
    /\ \E out \in RecordOutcomes :
          /\ recordOut' = out
          /\ trace' = trace \o RecordCalls(out)
          /\ written' = IF out = "ok"
                        THEN Append(written, ContactLead(req, delivered, delivery_error))
                        ELSE written
          /\ IF out = "ok" \/ PersistExcept(RecordException(out))
             THEN /\ pc' = "respond"
                  /\ response' = response
                  /\ log' = log
             ELSE /\ pc' = "done"
                  /\ response' = Http500
                  /\ log' = log \cup {[delivered |-> delivered, record |-> out,
                                       response |-> Http500]}
    /\ UNCHANGED <<env, dbenv, req, delivered, delivery_error, sendExc,
                   probe, snapshot>>

\* if delivered: return {...} else: return {...}
Respond ==
    /\ pc = "respond"
    /\ response' = ContactResponse(delivered)
    /\ trace' = Append(trace, "return")
    /\ log' = log \cup {[delivered |-> delivered, record |-> recordOut,
                         response |-> response']}
    /\ pc' = "done"
    /\ UNCHANGED <<env, dbenv, req, delivered, delivery_error, sendExc,
                   recordOut, written, probe, snapshot>>

Init ==
    /\ env \in EmailEnvs
    /\ dbenv = [DATABASE_URL |-> Unset, DATABASE_NAME |-> Unset]
    /\ pc = "idle"
    /\ req = NoReq
    /\ delivered = FALSE
    /\ delivery_error = NoneStr
    /\ sendExc = "none"
    /\ recordOut = ""
    /\ written = <<>>
    /\ trace = <<>>
    /\ response = NoResponse
    /\ log = {}
    /\ probe = NoProbe
    /\ snapshot = NoSnapshot

Next == Receive \/ Validate \/ Deliver \/ Record \/ Respond

Spec == Init /\ [][Next]_vars

\* ---------------------------------------------------------------- diagnostics
Status(text) == [text |-> text, detail |-> NoneStr]

\* variant: the error text is not cut
ErrorStatusUncut(text, e) == [text |-> text, detail |-> e]

\* f"<text>{str(e)[:50]}"
ErrorStatus(text, e) == [text |-> text, detail |-> Take(e, StatusErrorMax)]

DbName == "db.name"

CollLens == {0, 1, CollectionsShown, CollectionsShown + ExtraCollections}

Probes ==
    [import : {"ok", "ImportError", "Exception"}, dbNull : BOOLEAN,
     hasName : BOOLEAN, list : {"ok", "raises"}, ncoll : CollLens,
     elen : {0, 1, StatusErrorMax, StatusErrorMax + Over}]

\* db.list_collection_names()
ListCollectionNames(p) == [i \in 1..p.ncoll |-> i]

\* collections[:10]
FirstCollections(c) == SubSeq(c, 1, Min(Len(c), CollectionsShown))

\* "Set" if os.getenv(name) else "Not Set"
EnvFlag(v) == IF EnvTruthy(v) THEN "Set" ELSE "Not Set"

\* response = {...}
InitialSnapshot ==
    [backend |-> "Running", database |-> Status("Not Available"),
     database_url |-> "None", database_name |-> "None",
     connection_status |-> "Not Connected", collections |-> <<>>]

\* except Exception as e (around list_collection_names)
ListExcept(class) == class \in ExceptionClasses

\* variant: no handler for ImportError
ImportErrorExceptNever(class) == FALSE

\* except ImportError
ImportErrorExcept(class) == class = "ImportError"

\* variant: the outer handler is for ImportError only
ProbeExceptImportOnly(class) == class = "ImportError"

\* except Exception as e (around the whole probe)
ProbeExcept(class) == class \in ExceptionClasses

\* if db is not None: ... down to the inner except
ProbeHandle(resp, p) ==
    LET avail == [resp EXCEPT !.database = Status("Available"),
                              !.database_url = "Configured",
                              !.database_name = IF p.hasName THEN DbName
                                                ELSE "Connected",
                              !.connection_status = "Connected"]
    IN  IF p.list = "ok"
        THEN [resp |-> [avail EXCEPT
                          !.collections = FirstCollections(ListCollectionNames(p)),
                          !.database = Status("Connected & Working")],
              exc |-> "none"]
        ELSE IF ListExcept("Exception")
        THEN [resp |-> [avail EXCEPT !.database =
                          ErrorStatus("Connected but Error: ", Str("list", p.elen))],
              exc |-> "none"]
        ELSE [resp |-> avail, exc |-> "Exception"]

\* the body of the outer try
ProbeBody(resp, p) ==
    IF p.import # "ok"
    THEN [resp |-> resp, exc |-> p.import]
    ELSE IF ~p.dbNull
    THEN ProbeHandle(resp, p)
    ELSE [resp |-> [resp EXCEPT !.database = Status("Available but not initialized")],
          exc |-> "none"]

\* the outer try with its two handlers
ProbeDatabase(resp, p) ==
    LET b == ProbeBody(resp, p) IN
    IF b.exc = "none"
    THEN b
    ELSE IF ImportErrorExcept(b.exc)
    THEN [resp |-> [b.resp EXCEPT !.database =
                      Status("Database module not found (run enable-database first)")],
          exc |-> "none"]
    ELSE IF ProbeExcept(b.exc)
    THEN [resp |-> [b.resp EXCEPT !.database =
                      ErrorStatus("Error: ", Str("import", p.elen))],
          exc |-> "none"]
    ELSE b

\* variant: database_name is not overwritten
EnvCheckUrlOnly(resp, d) ==
    [resp EXCEPT !.database_url = EnvFlag(d.DATABASE_URL)]

\* the environment check that ends the handler
EnvCheck(resp, d) ==
    [resp EXCEPT !.database_url = EnvFlag(d.DATABASE_URL),
                 !.database_name = EnvFlag(d.DATABASE_NAME)]

\* GET /test arrives
TestBegin ==
    /\ pc \in {"idle", "done", "returned"}
    /\ probe' \in Probes
    /\ snapshot' = InitialSnapshot
    /\ pc' = "probe"
    /\ UNCHANGED <<env, dbenv, contactVars>>

TestProbe ==
    /\ pc = "probe"
    /\ LET r == ProbeDatabase(snapshot, probe) IN
          /\ snapshot' = r.resp
          /\ pc' = IF r.exc = "none" THEN "envcheck" ELSE "raised"
    /\ UNCHANGED <<env, dbenv, probe, contactVars>>

TestReturn ==
    /\ pc = "envcheck"
    /\ snapshot' = EnvCheck(snapshot, dbenv)
    /\ pc' = "returned"
    /\ UNCHANGED <<env, dbenv, probe, contactVars>>

DiagInit ==
    /\ env = [EMAIL_HOST |-> Unset, EMAIL_PORT |-> Unset,
              EMAIL_USER |-> Unset, EMAIL_PASS |-> Unset]
    /\ dbenv \in DbEnvs
    /\ pc = "idle"
    /\ req = NoReq
    /\ delivered = FALSE
    /\ delivery_error = NoneStr
    /\ sendExc = "none"
    /\ recordOut = ""
    /\ written = <<>>
    /\ trace = <<>>
    /\ response = NoResponse
    /\ log = {}
    /\ probe = NoProbe
    /\ snapshot = NoSnapshot

DiagNext == TestBegin \/ TestProbe \/ TestReturn

DiagSpec == DiagInit /\ [][DiagNext]_vars

\* ---------------------------------------------------------------- properties
Range(f) == {f[i] : i \in DOMAIN f}
Count(f, x) == Cardinality({i \in DOMAIN f : f[i] = x})
IsPrefix(a, b) == Len(a) <= Len(b) /\ SubSeq(b, 1, Len(a)) = a

SuccessMessage == "Message sent successfully"
FallbackMessage == "Message received. We'll get back to you soon."
FallbackNote == "Email delivery not configured on server; message saved."

InFlight == req # NoReq

\* the body of the request in flight breaks a field constraint
BodyInvalid ==
    \/ req.name.len = 0 \/ req.name.len > NameMax
    \/ req.message.len = 0 \/ req.message.len > MessageMax
    \/ ~req.emailOk

\* the calls contact() itself makes, without those inside send_email_smtp
HandlerCalls ==
    SelectSeq(trace, LAMBDA c : c \in {"send_email_smtp", "ContactLead",
                                       "create_document", "return"})

\* C1: a body that fails validation (name length 0 or over 100, message
\* length 0 or over 5000, invalid email) is answered with the validation
\* error, and neither send_email_smtp nor create_document is called for it.
C1_InvalidBodyHasNoSideEffect ==
    (InFlight /\ BodyInvalid) =>
        /\ pc \in {"validate", "done"}
        /\ pc = "done" => response = Http422
        /\ trace = <<>>
        /\ written = <<>>

C1_Witness ==
    /\ pc = "done"
    /\ req.name.len > NameMax
    /\ req.emailOk
    /\ req.message.len = 1
    /\ response = Http422

\* C2: a valid submission is always answered 200 with ok = true, with the
\* success message exactly when send_email_smtp returned and the fallback
\* message with the note otherwise; no exception leaves the handler.
C2_ValidAlwaysAcknowledged ==
    /\ response # Http500
    /\ (InFlight /\ ~BodyInvalid /\ pc = "done") =>
          /\ response.status = 200
          /\ response.ok
          /\ IF sendExc = "none"
             THEN response.message = SuccessMessage /\ response.note = ""
             ELSE response.message = FallbackMessage /\ response.note = FallbackNote

C2_Witness ==
    /\ pc = "done"
    /\ sendExc = "SMTPAuthenticationError"
    /\ recordOut = "store_raises"
    /\ response.ok
    /\ response.note = FallbackNote

\* C3: when EMAIL_HOST, EMAIL_USER or EMAIL_PASS is unset or empty, whatever
\* EMAIL_PORT holds, send_email_smtp raises the configuration error without
\* opening an SMTP connection, and the endpoint answers with the fallback note.
C3_UnconfiguredRaisesConfigError ==
    ( /\ pc \in {"record", "respond", "done"}
      /\ "send_email_smtp" \in Range(trace)
      /\ \/ ~env.EMAIL_HOST.set \/ env.EMAIL_HOST.chars = <<>>
         \/ ~env.EMAIL_USER.set \/ env.EMAIL_USER.chars = <<>>
         \/ ~env.EMAIL_PASS.set \/ env.EMAIL_PASS.chars = <<>> ) =>
        /\ sendExc = "RuntimeError"
        /\ delivery_error = Str("config", ConfigErrorLen)
        /\ "SMTP" \notin Range(trace)
        /\ pc = "done" => response.note = FallbackNote

\* C4: two answered submissions with the same delivery outcome got the same
\* response, whether the persistence block stored the lead, failed to build
\* it or failed to write it.
C4_ResponseIgnoresPersistence ==
    \A a \in log, b \in log :
        a.delivered = b.delivered => a.response = b.response

C4_Witness ==
    \E a \in log, b \in log, c \in log :
        /\ a.delivered /\ b.delivered /\ c.delivered
        /\ a.record = "ok"
        /\ b.record = "store_raises"
        /\ c.record = "lead_raises"
        /\ a.response.message = SuccessMessage

\* C9: for a valid submission the handler calls send_email_smtp once, then
\* runs the persistence block once (create_document at most once, after the
\* send returned or raised, also when delivery failed), then returns; at most
\* one SMTP connection is opened.
C9_OneSendThenOneRecord ==
    LET full == <<"send_email_smtp", "ContactLead", "create_document", "return">>
        short == <<"send_email_smtp", "ContactLead", "return">>
    IN  /\ IsPrefix(HandlerCalls, full) \/ IsPrefix(HandlerCalls, short)
        /\ Count(trace, "SMTP") <= 1
        /\ (InFlight /\ ~BodyInvalid /\ pc = "done") =>
              HandlerCalls = IF recordOut = "lead_raises" THEN short ELSE full

C9_Witness ==
    /\ pc = "done"
    /\ ~delivered
    /\ sendExc = "OSError"
    /\ HandlerCalls = <<"send_email_smtp", "ContactLead", "create_document", "return">>

\* C10 as stated: whenever the answer carries the note, a ContactLead with
\* delivered = false and an error of at most 300 characters is in the store.
C10_NoteMeansStored ==
    (pc = "done" /\ response.note = FallbackNote) =>
        /\ Len(written) = 1
        /\ ~written[1].delivered
        /\ written[1].error.len <= LeadErrorMax

\* C10 amended: whenever the answer carries the note, delivery failed and the
\* persistence block ran once; the store holds the lead of this submission
\* (delivered = false, error the first 300 characters of the delivery error)
\* exactly when neither building it nor create_document raised.
C10_NoteMeansStoreAttempted ==
    (pc = "done" /\ response.note = FallbackNote) =>
        /\ ~delivered
        /\ Count(trace, "ContactLead") = 1
        /\ IF recordOut = "ok"
           THEN /\ Len(written) = 1
                /\ written[1].name = req.name
                /\ written[1].emailOk = req.emailOk
                /\ written[1].message = req.message
                /\ ~written[1].delivered
                /\ written[1].error.len <= LeadErrorMax
                /\ written[1].error.len = Min(delivery_error.len, LeadErrorMax)
                /\ written[1].error.len > 0 =>
                      written[1].error.src = delivery_error.src
           ELSE written = <<>>

C10_Witness ==
    /\ pc = "done"
    /\ response.note = FallbackNote
    /\ recordOut = "ok"
    /\ delivery_error.len > LeadErrorMax
    /\ Len(written) = 1
    /\ written[1].error.len = LeadErrorMax

\* C5: GET /test never raises, whatever the import, the handle and
\* list_collection_names do, and every snapshot reports the backend running.
C5_DiagnosticsNeverRaises ==
    /\ pc # "raised"
    /\ pc \in {"probe", "envcheck", "returned"} => snapshot.backend = "Running"

C5_Witness ==
    /\ pc = "returned"
    /\ probe.import = "Exception"
    /\ snapshot.backend = "Running"

C7_ListingOutcome ==
    (pc = "returned" /\ probe.import = "ok" /\ ~probe.dbNull) =>
        IF probe.list = "raises"
        THEN /\ snapshot.database.text = "Connected but Error: "
             /\ snapshot.database.detail.src = "list"
             /\ snapshot.database.detail.len <= StatusErrorMax
             /\ snapshot.database.detail.len = Min(probe.elen, StatusErrorMax)
             /\ snapshot.connection_status = "Connected"
             /\ snapshot.collections = <<>>
        ELSE /\ snapshot.database = Status("Connected & Working")
             /\ snapshot.connection_status = "Connected"
             /\ Len(snapshot.collections) <= CollectionsShown
             /\ Len(snapshot.collections) = Min(probe.ncoll, CollectionsShown)
             /\ \A i \in 1..Len(snapshot.collections) : snapshot.collections[i] = i

C7_Witness ==
    /\ pc = "returned"
    /\ probe.import = "ok"
    /\ ~probe.dbNull
    /\ probe.list = "raises"
    /\ probe.elen > StatusErrorMax
    /\ snapshot.database.detail.len = StatusErrorMax

\* C8: in a returned snapshot database_url and database_name say only whether
\* DATABASE_URL and DATABASE_NAME hold a non-empty value, whatever the probe
\* did; they never carry "Configured", db.name or a variable's value.
C8_EnvFlagsOnly ==
    pc = "returned" =>
        /\ snapshot.database_url \in {"Set", "Not Set"}
        /\ snapshot.database_name \in {"Set", "Not Set"}
        /\ snapshot.database_url = "Set" <=>
              (dbenv.DATABASE_URL.set /\ dbenv.DATABASE_URL.chars # <<>>)
        /\ snapshot.database_name = "Set" <=>
              (dbenv.DATABASE_NAME.set /\ dbenv.DATABASE_NAME.chars # <<>>)

C8_Witness ==
    /\ pc = "returned"
    /\ probe.import = "ok"
    /\ ~probe.dbNull
    /\ probe.hasName
    /\ ~dbenv.DATABASE_NAME.set
    /\ dbenv.DATABASE_URL.chars # <<>>
    /\ snapshot.database_name = "Not Set"
    /\ snapshot.database_url = "Set"

====
